---- MODULE Spec2Model ----
(***************************************************************************)
(* A model of chromatix's wave-propagation core:                           *)
(*   utils/utils.py          center_pad, center_crop                       *)
(*   functional/propagate.py transform_propagate, transfer_propagate,      *)
(*                           exact_propagate, propagate                    *)
(*   functional/polarizers.py field_after_polarizer and the three presets  *)
(*                                                                         *)
(* Every function of the program is pure, so a behaviour is one call: Init *)
(* draws the function and its arguments from bounded sets (pc = "call"),   *)
(* and the function's action computes the outcome (pc = "done").  The one  *)
(* chained step is CropPadded, which hands the array returned by           *)
(* center_pad to center_crop, as transform_propagate does.                 *)
(*                                                                         *)
(* Numbers.  Lengths (dx, the wavelengths, z) and the refractive index n   *)
(* are multiples of 1/Unit, held as integer numerators.  Derived reals are *)
(* exact fractions [num, den]; den = 0 marks a non-finite float (0/0 is    *)
(* NaN, 1/0 is infinity).  Floating-point rounding is not modelled.        *)
(***************************************************************************)
EXTENDS Integers, Sequences, FiniteSets, TLC

VARIABLES
    pc,          \* "call": the call is pending; "done": it has returned or raised
    fn,          \* the function called
    args,        \* its arguments
    ret,         \* its outcome: [status |-> "ok", value |-> v] or [status |-> "raise", error |-> e]
    dispatch,    \* propagate only: the kernel it called and the N_pad it passed
    propagator,  \* kernels only: the transfer-function phase array they built
    jones,       \* polarizers only: the 3x3 matrix LP they applied
    prev,        \* the call whose return value is this call's input (CropPadded), or None
    local,       \* multislice_thick_sample only: its local field and the slices done
    trace        \* multislice_thick_sample only: the calls it has made, in order

vars == <<pc, fn, args, ret, dispatch, propagator, jones, prev, local, trace>>

None == [none |-> TRUE]

Ok(v) == [status |-> "ok", value |-> v]

Raise(e) == [status |-> "raise", error |-> e]

-----------------------------------------------------------------------------
(* Bounds of the model.                                                    *)

\* largest extent of an axis of the arrays given to center_pad / center_crop
MaxLen == 2

\* largest pad width / crop length given to center_pad / center_crop
MaxWidth == 2

\* largest height and width of a field
MaxSide == 3

\* largest N_pad a caller supplies
MaxNPad == 3

\* the element values of the arrays given to center_pad / center_crop
Vals == {1, 2}

-----------------------------------------------------------------------------
(* Arrays: [shape |-> <<extent of each axis>>, at |-> [index tuple |-> element]]. *)

\* F applied to the value of e (e is evaluated once, then bound)
With(e, F(_)) == CHOOSE r \in {F(x) : x \in {e}} : TRUE

Max(a, b) == IF a >= b THEN a ELSE b

Min(a, b) == IF a <= b THEN a ELSE b

Indices(shape) ==
    IF Len(shape) = 2
    THEN {<<i, j>> : i \in 1..shape[1], j \in 1..shape[2]}
    ELSE {<<b, i, j, c>> : b \in 1..shape[1], i \in 1..shape[2],
                           j \in 1..shape[3], c \in 1..shape[4]}

\* utils.py:131-132  pad = [(n, n) for n in pad_width]; jnp.pad(u, pad, constant_values=cval)
Padded(u, pad_width, cval, shape) ==
    [shape |-> shape,
     at |-> [idx \in Indices(shape) |->
                IF \A i \in 1..Len(shape) :
                       idx[i] > pad_width[i] /\ idx[i] <= pad_width[i] + u.shape[i]
                THEN u.at[[i \in 1..Len(shape) |-> idx[i] - pad_width[i]]]
                ELSE cval]]

center_pad_cval(u, pad_width, cval) ==
    Padded(u, pad_width, cval, [i \in 1..Len(u.shape) |-> u.shape[i] + 2 * pad_width[i]])

\* utils.py:126  cval: float = 0
center_pad(u, pad_width) == center_pad_cval(u, pad_width, 0)

\* Python's slice(start, stop) on an axis of the given size, for start >= 0:
\* a negative stop counts from the end, and both ends are clamped to [0, size].
\* The result is the half-open range [lo, hi) of 0-based positions.
PySlice(start, stop, size) ==
    LET lo == Min(start, size)
        hi == IF stop < 0 THEN Max(stop + size, 0) ELSE Min(stop, size)
    IN  [lo |-> lo, len |-> Max(hi - lo, 0)]

\* utils.py:140  crop_length = [0 if length is None else length for length in crop_length]
\* (an optional integer is << >> for Python's None and <<k>> for the integer k)
NoneToZero(crop_length) ==
    [i \in 1..Len(crop_length) |-> IF crop_length[i] = << >> THEN 0 ELSE crop_length[i][1]]

\* u[crop] for a tuple of slices, each a range [lo |-> first position, len |-> length]
Sliced(u, sl) ==
    [shape |-> [i \in 1..Len(sl) |-> sl[i].len],
     at |-> [idx \in Indices([i \in 1..Len(sl) |-> sl[i].len]) |->
                u.at[[i \in 1..Len(sl) |-> idx[i] + sl[i].lo]]]]

\* the crop written u[n:-n]: slice(n, -n), which is empty for n = 0
center_crop_negstop(u, crop_length) ==
    Sliced(u, [i \in 1..Len(u.shape) |->
                  PySlice(NoneToZero(crop_length)[i], 0 - NoneToZero(crop_length)[i],
                          u.shape[i])])

\* a crop that clamps the crop length to half the axis
center_crop_clamped(u, crop_length) ==
    Sliced(u, [i \in 1..Len(u.shape) |->
                  PySlice(Min(NoneToZero(crop_length)[i], u.shape[i] \div 2),
                          u.shape[i] - Min(NoneToZero(crop_length)[i], u.shape[i] \div 2),
                          u.shape[i])])

\* utils.py:140-142  crop = tuple(slice(n, size - n) ...); u[crop]
center_crop(u, crop_length) ==
    Sliced(u, [i \in 1..Len(u.shape) |->
                  PySlice(NoneToZero(crop_length)[i],
                          u.shape[i] - NoneToZero(crop_length)[i], u.shape[i])])

\* the 2-D arrays the calls of center_pad and center_crop are drawn from
Arrays ==
    UNION {{[shape |-> <<h, w>>, at |-> f] : f \in [Indices(<<h, w>>) -> Vals]} :
           h \in 1..MaxLen, w \in 1..MaxLen}

PadWidths == {<<a, b>> : a \in 0..MaxWidth, b \in 0..MaxWidth}

OptWidths == {<<k>> : k \in 0..MaxWidth} \cup {<< >>}

CropLengths == {<<a, b>> : a \in OptWidths, b \in OptWidths}

\* a sequence of integers as a sequence of optional integers
Some(w) == [i \in 1..Len(w) |-> <<w[i]>>]

-----------------------------------------------------------------------------
(* Fractions.  Frac(n, d) keeps the denominator non-negative; a zero       *)
(* denominator is a non-finite float: n/0 is +-infinity, 0/0 is NaN.       *)

Frac(n, d) == IF d < 0 THEN [num |-> 0 - n, den |-> 0 - d] ELSE [num |-> n, den |-> d]

IsNaN(a) == a.num = 0 /\ a.den = 0

IsFinite(a) == a.den # 0

\* a <= b, for a and b that are not NaN
FLeq(a, b) == a.num * b.den <= b.num * a.den

\* a = b as floats compare: NaN equals nothing
FEq(a, b) == ~IsNaN(a) /\ ~IsNaN(b) /\ a.num * b.den = b.num * a.den /\ (a.den = 0) = (b.den = 0)

FMax(a, b) == IF FLeq(a, b) THEN b ELSE a

\* the largest of a non-empty sequence of fractions (jnp.max)
FMaxOf(q) == CHOOSE a \in {q[i] : i \in 1..Len(q)} : \A i \in 1..Len(q) : FLeq(q[i], a)

\* jnp.ceil of a finite fraction
Ceil(a) == 0 - ((0 - a.num) \div a.den)

\* int(k / 2) for an integer k >= 0
HalfInt(k) == k \div 2

\* the smallest integer k >= 0 with k >= x / sqrt(r), for fractions x >= 0 and 0 < r <= 1:
\* jnp.ceil(x / jnp.sqrt(r)), decided on the squares
CeilDivSqrt(x, r) ==
    LET a == x.num
        b == x.den
        c == r.num
        d == r.den
        top == Ceil(Frac(a * d, b * c))
    IN  CHOOSE k \in 0..top :
            /\ k * k * b * b * c >= a * a * d
            /\ k > 0 => (k - 1) * (k - 1) * b * b * c < a * a * d

-----------------------------------------------------------------------------
(* Fields (the Field type is an external collaborator): u is a (B H W C)   *)
(* array, dx the sample spacing, spectrum the wavelength of each channel.  *)
(* A sample of the input field is a positive code of its index, distinct   *)
(* from every other sample and from the 0 that padding adds.               *)

\* a sample that the propagation changed to some other finite complex value
Diffracted == -1

\* a sample that is NaN after the propagation
NonFinite == -2

Sample(idx) == 1000 * idx[1] + 100 * idx[2] + 10 * idx[3] + idx[4]

InputU(H, W, C) ==
    [shape |-> <<1, H, W, C>>, at |-> [idx \in Indices(<<1, H, W, C>>) |-> Sample(idx)]]

\* the array of u's shape with every sample v
Fill(u, v) == [shape |-> u.shape, at |-> [idx \in Indices(u.shape) |-> v]]

\* the sample spacings, the spectra, the distances and the refractive indices of the calls
DXs == {3, 5}

Spectra == {<<5>>, <<5, 7>>}

Zs == {-2, 0, 1, 6}

RefractiveIndices == {Frac(1, 1), Frac(3, 2)}

Fields ==
    {[u |-> InputU(H, W, Len(sp)), dx |-> Frac(dx, 1), spectrum |-> sp] :
        H \in 1..MaxSide, W \in 1..MaxSide, dx \in DXs, sp \in Spectra}

Methods == {"transform", "transfer", "exact", "fraunhofer"}

Modes == {"full", "same", "valid"}

OptNPads == {<<k>> : k \in 0..MaxNPad} \cup {<< >>}

\* Field.replace(u=u)
ReplaceU(field, u) == [field EXCEPT !.u = u]

\* Field.replace(u=u, dx=du)
ReplaceUDx(field, u, du) == [field EXCEPT !.u = u, !.dx = du]

-----------------------------------------------------------------------------
(* The frequency grid and the phase arrays of the kernels.  A phase entry  *)
(* [coef, rad] stands for pi * coef * sqrt(rad), coef and rad fractions.   *)

\* jnp.fft.fftfreq(n, d) * (n * d): the integer bin numbers 0, 1, ..., -2, -1
FftFreq(n) == [i \in 1..n |-> IF i - 1 <= (n - 1) \div 2 THEN i - 1 ELSE i - 1 - n]

PhaseIsZero(p) == IsFinite(p.coef) /\ (p.coef.num = 0 \/ p.rad.num = 0)

PhaseIsNaN(p) == ~IsFinite(p.coef)

\* propagate.py:81  L = jnp.sqrt(field.spectrum * z / n), squared: NaN for z < 0
LSquared(l, z, n) == IF z < 0 THEN Frac(0, 0) ELSE Frac(l * z * n.den, n.num)

\* propagate.py:82-84  phase = -pi * L**2 * (fx**2 + fy**2) on the grid of shape[1] + N_pad bins
TransferPhaseAt(l, z, n, dx, N, kx, ky) ==
    LET L2 == LSquared(l, z, n)
    IN  [coef |-> Frac(0 - L2.num * (kx * kx + ky * ky) * dx.den * dx.den,
                       L2.den * N * N * dx.num * dx.num),
         rad |-> Frac(1, 1)]

\* the (1 N N C) phase array of the bins f on both spatial axes
TransferPhaseGrid(field, z, n, N, f) ==
    [shape |-> <<1, N, N, Len(field.spectrum)>>,
     at |-> [idx \in Indices(<<1, N, N, Len(field.spectrum)>>) |->
                TransferPhaseAt(field.spectrum[idx[4]], z, n, field.dx, N,
                                f[idx[2]], f[idx[3]])]]

\* propagate.py:82-83  f = fftfreq(field.shape[1] + N_pad, d=dx); fx, fy = both from f
TransferPhase(field, z, n, N_pad) ==
    With(FftFreq(field.u.shape[2] + N_pad), LAMBDA f :
         TransferPhaseGrid(field, z, n, field.u.shape[2] + N_pad, f))

\* propagate.py:132  kernel = 1 - (field.spectrum / n) ** 2 * (fx**2 + fy**2)
KernelTerm(l, n, dx, N, kx, ky) ==
    Frac(n.num * n.num * N * N * dx.num * dx.num
             - l * l * n.den * n.den * dx.den * dx.den * (kx * kx + ky * ky),
         n.num * n.num * N * N * dx.num * dx.num)

\* the kernel term left unclamped
ClampedKernelNoClamp(l, n, dx, N, kx, ky) == KernelTerm(l, n, dx, N, kx, ky)

\* propagate.py:133  kernel = jnp.maximum(kernel, 0.0)
ClampedKernel(l, n, dx, N, kx, ky) == FMax(KernelTerm(l, n, dx, N, kx, ky), Frac(0, 1))

\* the phase with the distance z left out of the coefficient
ExactPhaseAtNoZ(l, z, n, dx, N, kx, ky) ==
    [coef |-> Frac(2 * n.num, n.den * l), rad |-> ClampedKernel(l, n, dx, N, kx, ky)]

\* propagate.py:134  phase = 2 * pi * (z * n / field.spectrum) * sqrt(kernel)
ExactPhaseAt(l, z, n, dx, N, kx, ky) ==
    [coef |-> Frac(2 * z * n.num, n.den * l), rad |-> ClampedKernel(l, n, dx, N, kx, ky)]

\* the (1 N N C) phase array of the bins f on both spatial axes
ExactPhaseGrid(field, z, n, N, f) ==
    [shape |-> <<1, N, N, Len(field.spectrum)>>,
     at |-> [idx \in Indices(<<1, N, N, Len(field.spectrum)>>) |->
                ExactPhaseAt(field.spectrum[idx[4]], z, n, field.dx, N,
                             f[idx[2]], f[idx[3]])]]

\* propagate.py:130-131  f = fftfreq(field.shape[1] + N_pad, d=dx); fx, fy = both from f
ExactPhase(field, z, n, N_pad) ==
    With(FftFreq(field.u.shape[2] + N_pad), LAMBDA f :
         ExactPhaseGrid(field, z, n, field.u.shape[2] + N_pad, f))

\* numpy broadcasting of two shapes of equal rank: << >> when they are incompatible
Broadcast(s, t) ==
    IF \A i \in 1..Len(s) : s[i] = t[i] \/ s[i] = 1 \/ t[i] = 1
    THEN [i \in 1..Len(s) |-> IF s[i] = 1 THEN t[i] ELSE s[i]]
    ELSE << >>

\* the product array, given for each channel whether it comes back unchanged (same)
\* and whether its phase is NaN (nan)
Product(u, shape, same, nan) ==
    [shape |-> shape,
     at |-> [idx \in Indices(shape) |->
                IF same[idx[4]] THEN u.at[idx]
                ELSE IF nan[idx[4]] THEN NonFinite
                ELSE Diffracted]]

\* ifft(fft(u, loop_axis) * jnp.exp(1j * phase), loop_axis): the FFTs keep the shape,
\* the product broadcasts.  A channel whose phase is 0 in every bin is multiplied by 1
\* and comes back as it went in; any other channel is changed.
Multiply(u, phase) ==
    LET shape == Broadcast(u.shape, phase.shape)
        chan(c) == {phase.at[<<1, i, j, c>>] : i \in 1..phase.shape[2], j \in 1..phase.shape[3]}
    IN  IF shape = << >>
        THEN Raise("IncompatibleShapes")
        ELSE With([c \in 1..phase.shape[4] |->
                      [same |-> shape = u.shape /\ \A p \in chan(c) : PhaseIsZero(p),
                       nan |-> \E p \in chan(c) : PhaseIsNaN(p)]],
                  LAMBDA ch : Ok(Product(u, shape, [c \in DOMAIN ch |-> ch[c].same],
                                         [c \in DOMAIN ch |-> ch[c].nan])))

-----------------------------------------------------------------------------
(* The three kernels.  Each returns [ret, propagator]: the outcome and the *)
(* phase array it built (None for the transform method, which builds none).*)

\* propagate.py:37  du = L**2 / ((field.shape[1] + N_pad) * field.dx), one per channel
Du(field, z, n, N_pad) ==
    [c \in 1..Len(field.spectrum) |->
        LET L2 == LSquared(field.spectrum[c], z, n)
        IN  Frac(L2.num * field.dx.den,
                 L2.den * (field.u.shape[2] + N_pad) * field.dx.num)]

\* propagate.py:30-52
transform_propagate(field, z, n, N_pad) ==
    LET \* L = 0 (z = 0) makes norm and the input phase infinite, z < 0 makes L NaN
        v == IF z <= 0 THEN NonFinite ELSE Diffracted
        widths == <<0, HalfInt(N_pad), HalfInt(N_pad), 0>>
    IN  With(Fill(field.u, v), LAMBDA u1 :            \* field.u * exp(1j * input_phase)
        With(center_pad(u1, widths), LAMBDA u2 :
        With(Fill(u2, v), LAMBDA u3 :                 \* fftshift(fft(u, loop_axis))
        With(center_crop(u3, Some(widths)), LAMBDA u4 :
        With(Fill(u4, v), LAMBDA u5 :                 \* u *= norm * exp(1j * output_phase)
             [ret |-> Ok(ReplaceUDx(field, u5, Du(field, z, n, N_pad))),
              propagator |-> None])))))

\* a match on mode whose default case returns the padded result
CropModeDefaultFull(field, u, widths, mode) ==
    CASE mode = "same" -> Ok(ReplaceU(field, center_crop(u, Some(widths))))
      [] OTHER -> Ok(ReplaceU(field, u))

\* propagate.py:90-100 and 140-150  match mode
CropMode(field, u, widths, mode) ==
    CASE mode = "full" -> Ok(ReplaceU(field, u))
      [] mode = "same" -> Ok(ReplaceU(field, center_crop(u, Some(widths))))
      [] OTHER -> Raise("NotImplementedError")

\* propagate.py:86-88 and 136-138  pad, FFT, multiply by exp(1j * phase), inverse FFT;
\* then the match on mode
PadMultiplyCrop(field, phase, N_pad, mode) ==
    LET widths == <<0, HalfInt(N_pad), HalfInt(N_pad), 0>>
    IN  With(center_pad(field.u, widths), LAMBDA u :
        With(Multiply(u, phase), LAMBDA m :
             IF m.status = "raise" THEN m ELSE CropMode(field, m.value, widths, mode)))

\* propagate.py:81-100
transfer_propagate(field, z, n, N_pad, mode) ==
    With(TransferPhase(field, z, n, N_pad), LAMBDA phase :
         [ret |-> PadMultiplyCrop(field, phase, N_pad, mode), propagator |-> phase])

\* propagate.py:130-150
exact_propagate(field, z, n, N_pad, mode) ==
    With(ExactPhase(field, z, n, N_pad), LAMBDA phase :
         [ret |-> PadMultiplyCrop(field, phase, N_pad, mode), propagator |-> phase])

-----------------------------------------------------------------------------
(* propagate: the automatic padding and the dispatch.  It returns          *)
(* [ret, propagator, dispatch]; dispatch is None when no kernel is called. *)

\* propagate.py:164-165  Nf = jnp.max((D / 2) ** 2 / (field.spectrum * z)), D = M * dx
FresnelNumber(field, z) ==
    LET M == field.u.shape[2]
        dx == field.dx
    IN  FMaxOf([c \in 1..Len(field.spectrum) |->
                   Frac(M * M * dx.num * dx.num, 4 * field.spectrum[c] * z * dx.den * dx.den)])

\* propagate.py:169  Q = 2 * jnp.maximum(1.0, M / (4 * Nf))
PadRatio(field, z) ==
    LET M == field.u.shape[2]
        Nf == FresnelNumber(field, z)
        r == FMax(Frac(1, 1), Frac(M * Nf.den, 4 * Nf.num))
    IN  Frac(2 * r.num, r.den)

\* the smallest of a non-empty sequence of fractions
FMinOf(q) == CHOOSE a \in {q[i] : i \in 1..Len(q)} : \A i \in 1..Len(q) : FLeq(a, q[i])

\* the scale taken as the minimum over the spectrum
ScaleMin(field) ==
    FMinOf([c \in 1..Len(field.spectrum) |->
               Frac(field.spectrum[c] * field.dx.den, 2 * field.dx.num)])

\* propagate.py:186  scale = jnp.max(field.spectrum / (2 * field.dx))
Scale(field) ==
    FMaxOf([c \in 1..Len(field.spectrum) |->
               Frac(field.spectrum[c] * field.dx.den, 2 * field.dx.num)])

\* the padded size rounded up to the next integer, not to the next even integer
AutoNPadCeilOnly(field, z) ==
    Ceil(Frac(PadRatio(field, z).num * field.u.shape[2], PadRatio(field, z).den))
        - field.u.shape[2]

\* propagate.py:174-175 and 179-180  N = int(ceil((Q * M) / 2) * 2); N_pad = int(N - M)
AutoNPad(field, z) ==
    LET M == field.u.shape[2]
        Q == PadRatio(field, z)
    IN  Ceil(Frac(Q.num * M, Q.den * 2)) * 2 - M

\* propagate.py:188-190  Q = Q / sqrt(1 - scale**2); N = int(ceil((Q * M) / 2) * 2); N_pad = int(N - M)
AutoNPadExact(field, z) ==
    LET M == field.u.shape[2]
        Q == PadRatio(field, z)
        s == Scale(field)
        r == Frac(s.den * s.den - s.num * s.num, s.den * s.den)     \* 1 - scale**2
    IN  CeilDivSqrt(Frac(Q.num * M, Q.den * 2), r) * 2 - M

\* propagate.py:171-199
propagate(field, z, n, method, mode, N_pad) ==
    CASE method = "transform" ->
            LET np == IF N_pad = << >> THEN AutoNPad(field, z) ELSE N_pad[1]
                k == transform_propagate(field, z, n, np)
            IN  [ret |-> k.ret, propagator |-> k.propagator,
                 dispatch |-> [kernel |-> "transform_propagate", N_pad |-> np]]
      [] method = "transfer" ->
            LET np == IF N_pad = << >> THEN AutoNPad(field, z) ELSE N_pad[1]
                k == transfer_propagate(field, z, n, np, mode)
            IN  [ret |-> k.ret, propagator |-> k.propagator,
                 dispatch |-> [kernel |-> "transfer_propagate", N_pad |-> np]]
      [] method = "exact" ->
            IF N_pad = << >> /\ ~(Scale(field).num < Scale(field).den)
            THEN \* assert scale < 1
                 [ret |-> Raise("AssertionError"), propagator |-> None, dispatch |-> None]
            ELSE LET np == IF N_pad = << >> THEN AutoNPadExact(field, z) ELSE N_pad[1]
                     k == exact_propagate(field, z, n, np, mode)
                 IN  [ret |-> k.ret, propagator |-> k.propagator,
                      dispatch |-> [kernel |-> "exact_propagate", N_pad |-> np]]
      [] OTHER ->
            [ret |-> Raise("NotImplementedError"), propagator |-> None, dispatch |-> None]

-----------------------------------------------------------------------------
(* The calls of the propagation engine.                                    *)

\* a call of transform_propagate is pending
TransformCall ==
    \E f \in Fields, z \in Zs, n \in RefractiveIndices, np \in 0..MaxNPad :
        /\ fn = "transform_propagate"
        /\ args = [field |-> f, z |-> z, n |-> n, N_pad |-> np]

\* a call of transfer_propagate or exact_propagate is pending
KernelCall ==
    \E f \in Fields, z \in Zs, n \in RefractiveIndices, np \in 0..MaxNPad, mode \in Modes :
        /\ fn \in {"transfer_propagate", "exact_propagate"}
        /\ args = [field |-> f, z |-> z, n |-> n, N_pad |-> np, mode |-> mode]

\* a call of propagate is pending
PropagateCall ==
    \E f \in Fields, z \in Zs, n \in RefractiveIndices :
        \E method \in Methods, mode \in Modes, np \in OptNPads :
            /\ fn = "propagate"
            /\ args = [field |-> f, z |-> z, n |-> n,
                       method |-> method, mode |-> mode, N_pad |-> np]

TransformPropagate ==
    /\ pc = "call" /\ fn = "transform_propagate"
    /\ \E k \in {transform_propagate(args.field, args.z, args.n, args.N_pad)} :
           ret' = k.ret /\ propagator' = k.propagator
    /\ pc' = "done"
    /\ UNCHANGED <<fn, args, dispatch, jones, prev, local, trace>>

TransferPropagate ==
    /\ pc = "call" /\ fn = "transfer_propagate"
    /\ \E k \in {transfer_propagate(args.field, args.z, args.n, args.N_pad, args.mode)} :
           ret' = k.ret /\ propagator' = k.propagator
    /\ pc' = "done"
    /\ UNCHANGED <<fn, args, dispatch, jones, prev, local, trace>>

ExactPropagate ==
    /\ pc = "call" /\ fn = "exact_propagate"
    /\ \E k \in {exact_propagate(args.field, args.z, args.n, args.N_pad, args.mode)} :
           ret' = k.ret /\ propagator' = k.propagator
    /\ pc' = "done"
    /\ UNCHANGED <<fn, args, dispatch, jones, prev, local, trace>>

Propagate ==
    /\ pc = "call" /\ fn = "propagate"
    /\ \E k \in {propagate(args.field, args.z, args.n, args.method, args.mode, args.N_pad)} :
           ret' = k.ret /\ propagator' = k.propagator /\ dispatch' = k.dispatch
    /\ pc' = "done"
    /\ UNCHANGED <<fn, args, jones, prev, local, trace>>

-----------------------------------------------------------------------------
(* Polarizers.  A vector field is modelled at one pixel: u is the triple   *)
(* of its polarization components in the order (z, y, x), each a complex   *)
(* number [re, im] over the denominator den.  jnp.dot(u, LP) contracts the *)
(* last axis of u with the rows of LP, pixel by pixel.  The Jones          *)
(* coefficients are held in halves (cos^2, sin^2 and sin*cos of a multiple *)
(* of 45 degrees are multiples of 1/2), so the product has denominator 2.  *)

Cx(re, im) == [re |-> re, im |-> im]

CAdd(a, b) == Cx(a.re + b.re, a.im + b.im)

CMul(a, b) == Cx(a.re * b.re - a.im * b.im, a.re * b.im + a.im * b.re)

\* cos and sin of twice the angle k * 45 degrees
Cos2(k) == CASE k % 4 = 0 -> 1 [] k % 4 = 1 -> 0 [] k % 4 = 2 -> -1 [] OTHER -> 0

Sin2(k) == CASE k % 4 = 0 -> 0 [] k % 4 = 1 -> 1 [] k % 4 = 2 -> 0 [] OTHER -> -1

\* jnp.dot(u, LP): out[j] = sum over k of u[k] * LP[k][j]
Dot(u, LP) ==
    [j \in 1..3 |-> CAdd(CAdd(CMul(u[1], LP[1][j]), CMul(u[2], LP[2][j])), CMul(u[3], LP[3][j]))]

\* the matrix laid out in the order (x, y, z), the axes not inverted
JonesMatrixXYZ(J00, J01, J10, J11) ==
    <<<<J00, J01, Cx(0, 0)>>,
      <<J10, J11, Cx(0, 0)>>,
      <<Cx(0, 0), Cx(0, 0), Cx(0, 0)>>>>

\* polarizers.py:17  LP = [[0, 0, 0], [0, J11, J10], [0, J01, J00]]
JonesMatrix(J00, J01, J10, J11) ==
    <<<<Cx(0, 0), Cx(0, 0), Cx(0, 0)>>,
      <<Cx(0, 0), J11, J10>>,
      <<Cx(0, 0), J01, J00>>>>

\* polarizers.py:17-18  field.replace(u=jnp.dot(field.u, LP)); the coefficients are halves.
\* Returns [field, LP]: the field after the polarizer and the matrix applied.
field_after_polarizer(field, J00, J01, J10, J11) ==
    With(JonesMatrix(J00, J01, J10, J11), LAMBDA LP :
         [field |-> [field EXCEPT !.u = Dot(field.u, LP), !.den = 2 * field.den],
          LP |-> LP])

\* polarizers.py:33-38  J00 = c**2, J11 = s**2, J01 = J10 = s * c, in halves
linear_polarizer(field, angle) ==
    field_after_polarizer(field, Cx(1 + Cos2(angle), 0), Cx(Sin2(angle), 0),
                          Cx(Sin2(angle), 0), Cx(1 - Cos2(angle), 0))

\* polarizers.py:51-55  J00 = 1, J11 = 1, J01 = -1j, J10 = 1j, in halves
left_circular_polarizer(field) ==
    field_after_polarizer(field, Cx(2, 0), Cx(0, -2), Cx(0, 2), Cx(2, 0))

\* polarizers.py:68-72  J00 = 1, J11 = 1, J01 = 1j, J10 = -1j, in halves
right_circular_polarizer(field) ==
    field_after_polarizer(field, Cx(2, 0), Cx(0, 2), Cx(0, -2), Cx(2, 0))

\* the polarization components and the angles (in units of 45 degrees) of the calls
Components == {Cx(0, 0), Cx(1, 0), Cx(0, 1), Cx(2, -1)}

Angles == 0..3

VectorFields == {[u |-> <<uz, uy, ux>>, den |-> 1] : uz \in Components, uy \in Components, ux \in Components}

\* a call of a polarizer is pending
PolarizerCall ==
    \E f \in VectorFields :
        \/ \E a \in Angles : fn = "linear_polarizer" /\ args = [field |-> f, angle |-> a]
        \/ fn \in {"left_circular_polarizer", "right_circular_polarizer"} /\ args = [field |-> f]

LinearPolarizer ==
    /\ pc = "call" /\ fn = "linear_polarizer"
    /\ \E k \in {linear_polarizer(args.field, args.angle)} : ret' = Ok(k.field) /\ jones' = k.LP
    /\ pc' = "done"
    /\ UNCHANGED <<fn, args, dispatch, propagator, prev, local, trace>>

LeftCircularPolarizer ==
    /\ pc = "call" /\ fn = "left_circular_polarizer"
    /\ \E k \in {left_circular_polarizer(args.field)} : ret' = Ok(k.field) /\ jones' = k.LP
    /\ pc' = "done"
    /\ UNCHANGED <<fn, args, dispatch, propagator, prev, local, trace>>

RightCircularPolarizer ==
    /\ pc = "call" /\ fn = "right_circular_polarizer"
    /\ \E k \in {right_circular_polarizer(args.field)} : ret' = Ok(k.field) /\ jones' = k.LP
    /\ pc' = "done"
    /\ UNCHANGED <<fn, args, dispatch, propagator, prev, local, trace>>

-----------------------------------------------------------------------------
(* The calls of the array utilities.                                       *)

\* a call of center_pad is pending
PadCall ==
    \E x \in Arrays, w \in PadWidths :
        fn = "center_pad" /\ args = [u |-> x, pad_width |-> w]

\* a call of center_crop is pending
CropCall ==
    \E x \in Arrays, w \in CropLengths :
        fn = "center_crop" /\ args = [u |-> x, crop_length |-> w]

\* center_pad(u, pad_width)
CenterPad ==
    /\ pc = "call" /\ fn = "center_pad"
    /\ ret' = Ok(center_pad(args.u, args.pad_width))
    /\ pc' = "done"
    /\ UNCHANGED <<fn, args, dispatch, propagator, jones, prev, local, trace>>

\* center_crop(u, crop_length)
CenterCrop ==
    /\ pc = "call" /\ fn = "center_crop"
    /\ ret' = Ok(center_crop(args.u, args.crop_length))
    /\ pc' = "done"
    /\ UNCHANGED <<fn, args, dispatch, propagator, jones, prev, local, trace>>

\* the caller hands the array center_pad returned to center_crop with the
\* same widths (propagate.py:45-47, 87 and 95, 137 and 145)
CropPadded ==
    /\ pc = "done" /\ fn = "center_pad"
    /\ prev' = [fn |-> fn, args |-> args, ret |-> ret]
    /\ fn' = "center_crop"
    /\ args' = [u |-> ret.value, crop_length |-> Some(args.pad_width)]
    /\ pc' = "call"
    /\ ret' = None
    /\ UNCHANGED <<dispatch, propagator, jones, local, trace>>

Init ==
    /\ \/ PadCall
       \/ CropCall
       \/ TransformCall
       \/ KernelCall
       \/ PropagateCall
       \/ PolarizerCall
    /\ pc = "call"
    /\ ret = None
    /\ dispatch = None
    /\ propagator = None
    /\ jones = None
    /\ prev = None
    /\ local = None
    /\ trace = << >>

Next ==
    \/ CenterPad
    \/ CenterCrop
    \/ CropPadded
    \/ TransformPropagate
    \/ TransferPropagate
    \/ ExactPropagate
    \/ Propagate
    \/ LinearPolarizer
    \/ LeftCircularPolarizer
    \/ RightCircularPolarizer

Spec == Init /\ [][Next]_vars

-----------------------------------------------------------------------------
(* functional/samples.py: thin_sample and multislice_thick_sample.  The    *)
(* call runs one statement per step.  Its local field is held as the shape *)
(* of u and the sequence of operations applied to the caller's u so far.   *)
(* pad, crop, compute_exact_propagator, kernel_propagate, the              *)
(* exact_propagate of functional/propagation and _broadcast_2d_to_spatial  *)
(* are not part of the sources modelled here; they follow section 4.3 of   *)
(* the specification.                                                      *)

\* largest number of slices of a stack
MaxSlices == 2

\* the slice thicknesses of the calls
Thicknesses == {1, 2}

\* samples.py:54  kykx: Array = jnp.zeros((2,))
DefaultKykx == <<0, 0>>

\* the fields given to multislice_thick_sample
ThickFields ==
    {f \in Fields : f.u.shape[2] <= MaxLen /\ f.u.shape[3] <= MaxLen /\ f.dx = Frac(3, 1)}

\* the local variable field at entry: the caller's field, nothing applied to u yet
Entry(field) == [shape |-> field.u.shape, spectrum |-> field.spectrum, u |-> << >>]

\* field.replace(u=...) after the operation op, with the shape of its result
Applied(field, shape, op) == [field EXCEPT !.shape = shape, !.u = Append(@, op)]

\* samples.py:85  pad(field, N_pad): both spatial axes are padded by N_pad on each side
pad(field, N_pad) ==
    Applied(field,
            <<field.shape[1], field.shape[2] + 2 * N_pad, field.shape[3] + 2 * N_pad,
              field.shape[4]>>,
            [op |-> "pad", N_pad |-> N_pad])

\* samples.py:98  crop(field, N_pad): both spatial axes are cropped by N_pad on each side
crop(field, N_pad) ==
    Applied(field,
            <<field.shape[1], Max(field.shape[2] - 2 * N_pad, 0),
              Max(field.shape[3] - 2 * N_pad, 0), field.shape[4]>>,
            [op |-> "crop", N_pad |-> N_pad])

\* samples.py:87  compute_exact_propagator(field, z, n, kykx): the exact-method phase
\* array on the grid of the field it is given, for the distance z
compute_exact_propagator(field, z, n, kykx) ==
    [shape |-> field.shape, z |-> z, n |-> n, kykx |-> kykx]

\* a local propagator that is computed on every call, supplied or not
propagator_always_computed(supplied, field, z, n, kykx) ==
    [value |-> compute_exact_propagator(field, z, n, kykx), computed |-> TRUE]

\* samples.py:86-87  if propagator is None: propagator = compute_exact_propagator(...)
propagator_or_computed(supplied, field, z, n, kykx) ==
    IF supplied = None
    THEN [value |-> compute_exact_propagator(field, z, n, kykx), computed |-> TRUE]
    ELSE [value |-> supplied, computed |-> FALSE]

\* a loop that takes the slices from the last to the first
slice_reversed(stack, i) ==
    [shape |-> <<stack.shape[2], stack.shape[3]>>, val |-> stack.at[stack.shape[1] - i]]

\* samples.py:89  for absorption, dn in zip(absorption_stack, dn_stack): the slice of
\* the stack taken by iteration i = 0, 1, ...
slice(stack, i) ==
    [shape |-> <<stack.shape[2], stack.shape[3]>>, val |-> stack.at[i + 1]]

\* samples.py:90-91  _broadcast_2d_to_spatial(x, field.ndim): (H W) becomes (1 H W 1)
broadcast_2d_to_spatial(x, ndim) ==
    [shape |-> [k \in 1..ndim |-> IF k = ndim - 2 THEN x.shape[1]
                                   ELSE IF k = ndim - 1 THEN x.shape[2] ELSE 1],
     val |-> x.val]

\* samples.py:30-43  thin_sample: the two assert_rank, then
\* field * exp(1j * 2 * pi * (dn + 1j * absorption) * thickness / field.spectrum)
thin_sample(field, absorption, dn, thickness) ==
    IF Len(absorption.shape) # Len(field.shape) \/ Len(dn.shape) # Len(field.shape)
    THEN Raise("RankMismatch")
    ELSE With(Broadcast(Broadcast(dn.shape, absorption.shape),
                        <<1, 1, 1, Len(field.spectrum)>>),
              LAMBDA sample :
                  IF sample = << >> \/ Broadcast(field.shape, sample) = << >>
                  THEN Raise("IncompatibleShapes")
                  ELSE Ok(Applied(field, Broadcast(field.shape, sample),
                                  [op |-> "thin_sample", absorption |-> absorption.val,
                                   dn |-> dn.val, thickness |-> thickness])))

\* samples.py:93  kernel_propagate(field, propagator): the spectrum of u times the kernel
kernel_propagate(field, kernel) ==
    IF Broadcast(field.shape, kernel.shape) = << >>
    THEN Raise("IncompatibleShapes")
    ELSE Ok(Applied(field, Broadcast(field.shape, kernel.shape),
                    [op |-> "kernel_propagate", propagator |-> kernel]))

\* samples.py:97  exact_propagate(field, z=..., n=n, kykx=kykx, N_pad=0) of
\* functional/propagation, in its default mode
propagation_exact_propagate(field, z, n, kykx, N_pad) ==
    Applied(field,
            <<field.shape[1], field.shape[2] + 2 * HalfInt(N_pad),
              field.shape[3] + 2 * HalfInt(N_pad), field.shape[4]>>,
            [op |-> "exact_propagate", z |-> z, n |-> n, kykx |-> kykx, N_pad |-> N_pad])

\* a shift backwards by the whole stack thickness
whole_stack_thickness(thickness_per_slice, absorption_stack) ==
    Frac(thickness_per_slice * absorption_stack.shape[1], 1)

\* samples.py:96  half_stack_thickness = thickness_per_slice * absorption_stack.shape[0] / 2
half_stack_thickness(thickness_per_slice, absorption_stack) ==
    Frac(thickness_per_slice * absorption_stack.shape[1], 2)

\* the stacks of a call on a field with the given N_pad: (D H W) arrays, uniform within
\* a slice, given on the grid of the field or on the grid of the padded field
StackShapes(field, N_pad) ==
    {<<d, field.u.shape[2] + 2 * p, field.u.shape[3] + 2 * p>> :
        d \in 0..MaxSlices, p \in {0, N_pad}}

AbsorptionStacks(field, N_pad) ==
    UNION {{[shape |-> s, at |-> a] : a \in [1..s[1] -> Vals]} : s \in StackShapes(field, N_pad)}

DnStacks(field, N_pad) ==
    {[shape |-> s, at |-> [i \in 1..s[1] |-> v]] : s \in StackShapes(field, N_pad), v \in Vals}

\* the propagators a caller supplies: none, or a kernel for the padded field and a
\* distance of the caller's choice
Propagators(field, n, N_pad) ==
    {None} \cup {compute_exact_propagator(pad(Entry(field), N_pad), z, n, DefaultKykx) :
                    z \in Thicknesses}

\* a call of multislice_thick_sample is pending
MultisliceCall ==
    \E field \in ThickFields, N_pad \in 0..MaxWidth, t \in Thicknesses :
        \E a \in AbsorptionStacks(field, N_pad), d \in DnStacks(field, N_pad),
           p \in Propagators(field, Frac(3, 2), N_pad) :
            /\ fn = "multislice_thick_sample"
            /\ args = [field |-> field, absorption_stack |-> a, dn_stack |-> d,
                       n |-> Frac(3, 2), thickness_per_slice |-> t, N_pad |-> N_pad,
                       propagator |-> p, kykx |-> DefaultKykx]
            /\ local = [field |-> Entry(field), i |-> 0]
            /\ propagator = p

\* samples.py:84  assert_equal_shape(absorption_stack, dn_stack)
AssertEqualShape ==
    /\ pc = "call" /\ fn = "multislice_thick_sample"
    /\ trace' = Append(trace, <<"assert_equal_shape">>)
    /\ IF args.absorption_stack.shape = args.dn_stack.shape
       THEN pc' = "pad" /\ ret' = ret
       ELSE pc' = "done" /\ ret' = Raise("ShapeMismatch")
    /\ UNCHANGED <<fn, args, dispatch, propagator, jones, prev, local>>

\* samples.py:85  field = pad(field, N_pad)
PadField ==
    /\ pc = "pad"
    /\ local' = [local EXCEPT !.field = pad(@, args.N_pad)]
    /\ trace' = Append(trace, <<"pad">>)
    /\ pc' = "propagator"
    /\ UNCHANGED <<fn, args, ret, dispatch, propagator, jones, prev>>

\* the position after the kernel is settled, and after each slice: the loop head
LoopHead(i) == IF i < args.absorption_stack.shape[1] THEN "thin_sample" ELSE "back"

\* samples.py:86-87  if propagator is None: propagator = compute_exact_propagator(...)
ComputePropagator ==
    /\ pc = "propagator"
    /\ \E k \in {propagator_or_computed(propagator, local.field, args.thickness_per_slice,
                                        args.n, args.kykx)} :
           /\ propagator' = k.value
           /\ trace' = IF k.computed THEN Append(trace, <<"compute_exact_propagator">>)
                       ELSE trace
    /\ pc' = LoopHead(local.i)
    /\ UNCHANGED <<fn, args, ret, dispatch, jones, prev, local>>

\* samples.py:89-92  the next slice of each stack, broadcast, and thin_sample with it
ThinSample ==
    /\ pc = "thin_sample"
    /\ \E r \in {thin_sample(local.field,
                             broadcast_2d_to_spatial(slice(args.absorption_stack, local.i),
                                                     Len(local.field.shape)),
                             broadcast_2d_to_spatial(slice(args.dn_stack, local.i),
                                                     Len(local.field.shape)),
                             args.thickness_per_slice)} :
           IF r.status = "ok"
           THEN local' = [local EXCEPT !.field = r.value] /\ pc' = "kernel_propagate"
                /\ ret' = ret
           ELSE local' = local /\ pc' = "done" /\ ret' = r
    /\ trace' = Append(trace, <<"thin_sample", local.i>>)
    /\ UNCHANGED <<fn, args, dispatch, propagator, jones, prev>>

\* samples.py:93  field = kernel_propagate(field, propagator); then the next iteration
KernelPropagate ==
    /\ pc = "kernel_propagate"
    /\ \E r \in {kernel_propagate(local.field, propagator)} :
           IF r.status = "ok"
           THEN local' = [field |-> r.value, i |-> local.i + 1]
                /\ pc' = LoopHead(local.i + 1) /\ ret' = ret
           ELSE local' = local /\ pc' = "done" /\ ret' = r
    /\ trace' = Append(trace, <<"kernel_propagate", local.i>>)
    /\ UNCHANGED <<fn, args, dispatch, propagator, jones, prev>>

\* samples.py:96-97  field = exact_propagate(field, z=-half_stack_thickness, n=n,
\* kykx=kykx, N_pad=0)
PropagateBack ==
    /\ pc = "back"
    /\ \E h \in {half_stack_thickness(args.thickness_per_slice, args.absorption_stack)} :
           local' = [local EXCEPT !.field =
                        propagation_exact_propagate(@, Frac(0 - h.num, h.den), args.n,
                                                    args.kykx, 0)]
    /\ trace' = Append(trace, <<"exact_propagate">>)
    /\ pc' = "crop"
    /\ UNCHANGED <<fn, args, ret, dispatch, propagator, jones, prev>>

\* samples.py:98  return crop(field, N_pad)
CropField ==
    /\ pc = "crop"
    /\ ret' = Ok(crop(local.field, args.N_pad))
    /\ trace' = Append(trace, <<"crop">>)
    /\ pc' = "done"
    /\ UNCHANGED <<fn, args, dispatch, propagator, jones, prev, local>>

MultisliceInit ==
    /\ MultisliceCall
    /\ pc = "call"
    /\ ret = None
    /\ dispatch = None
    /\ jones = None
    /\ prev = None
    /\ trace = << >>

MultisliceNext ==
    \/ AssertEqualShape
    \/ PadField
    \/ ComputePropagator
    \/ ThinSample
    \/ KernelPropagate
    \/ PropagateBack
    \/ CropField

MultisliceSpec == MultisliceInit /\ [][MultisliceNext]_vars

-----------------------------------------------------------------------------
(* Claims.                                                                 *)

Done(f) == pc = "done" /\ fn = f

\* the crop lengths of a center_crop call, None read as 0
CropN == NoneToZero(args.crop_length)

\* C1: for every array x and every widths w >= 0, center_crop(center_pad(x, w), w)
\* has the shape of x and is element-wise equal to x; an axis of width 0 is left
\* untouched by center_pad and by center_crop.
C1_RoundTrip ==
    /\ (Done("center_crop") /\ prev # None) =>
           /\ ret.status = "ok"
           /\ ret.value.shape = prev.args.u.shape
           /\ ret.value = prev.args.u
    /\ Done("center_pad") =>
           /\ \A i \in 1..Len(args.pad_width) :
                  args.pad_width[i] = 0 => ret.value.shape[i] = args.u.shape[i]
           /\ (\A i \in 1..Len(args.pad_width) : args.pad_width[i] = 0) => ret.value = args.u
    /\ Done("center_crop") =>
           /\ \A i \in 1..Len(CropN) : CropN[i] = 0 => ret.value.shape[i] = args.u.shape[i]
           /\ (\A i \in 1..Len(CropN) : CropN[i] = 0) => ret.value = args.u

\* a round trip through a positive width on one axis and a zero width on the other
C1_Witness ==
    /\ Done("center_crop") /\ prev # None
    /\ prev.args.pad_width = <<1, 0>>
    /\ prev.args.u.shape = <<2, 2>>
    /\ prev.ret.value.shape = <<4, 2>>

\* C7 as stated: center_crop fails with a shape error, and returns no array, whenever
\* a crop length exceeds half the size of its axis.
C7_Original ==
    (Done("center_crop") /\ \E i \in 1..Len(CropN) : 2 * CropN[i] > args.u.shape[i]) =>
        ret.status = "raise"

\* C7 amended: center_crop raises nothing; an axis whose crop length exceeds half its
\* size comes back empty (size 0), every other axis with size - 2 * length elements.
C7_OverlongCropIsEmpty ==
    Done("center_crop") =>
        /\ ret.status = "ok"
        /\ \A i \in 1..Len(CropN) :
               ret.value.shape[i] = IF 2 * CropN[i] > args.u.shape[i]
                                    THEN 0
                                    ELSE args.u.shape[i] - 2 * CropN[i]

\* a crop of 2 from each side of an axis of 2 elements
C7_Witness ==
    /\ Done("center_crop")
    /\ args.u.shape[1] = 2 /\ CropN[1] = 2
    /\ ret.status = "ok" /\ ret.value.shape[1] = 0

\* the components of a vector field, in the order (z, y, x)
Zc(u) == u[1]

Yc(u) == u[2]

Xc(u) == u[3]

IsPolarizer == fn \in {"linear_polarizer", "left_circular_polarizer", "right_circular_polarizer"}

\* the call's field with its z component replaced by c
WithZ(c) == [args.field EXCEPT !.u[1] = c]

\* the preset of the call applied to another field
Preset(field) ==
    CASE fn = "linear_polarizer" -> linear_polarizer(field, args.angle).field
      [] fn = "left_circular_polarizer" -> left_circular_polarizer(field).field
      [] OTHER -> right_circular_polarizer(field).field

\* C10: linear_polarizer at angle 0 returns the input's x component unchanged and a
\* zero y component; for every preset the z row and the z column of the applied matrix
\* are zero, the output z component is zero, and the output y and x components are the
\* same whatever the input z component is.
C10_Polarizer ==
    /\ (Done("linear_polarizer") /\ args.angle = 0) =>
           /\ Xc(ret.value.u) = Cx(ret.value.den * Xc(args.field.u).re,
                                   ret.value.den * Xc(args.field.u).im)
           /\ Yc(ret.value.u) = Cx(0, 0)
    /\ (pc = "done" /\ IsPolarizer) =>
           /\ \A k \in 1..3 : jones[1][k] = Cx(0, 0) /\ jones[k][1] = Cx(0, 0)
           /\ Zc(ret.value.u) = Cx(0, 0)
           /\ \A c \in Components :
                  /\ Yc(Preset(WithZ(c)).u) = Yc(ret.value.u)
                  /\ Xc(Preset(WithZ(c)).u) = Xc(ret.value.u)

\* a field with non-zero z, y and x components after the linear polarizer at angle 0
C10_Witness ==
    /\ Done("linear_polarizer") /\ args.angle = 0
    /\ args.field.u = <<Cx(1, 0), Cx(0, 1), Cx(2, -1)>>
    /\ ret.value.u = <<Cx(0, 0), Cx(0, 0), Cx(4, -2)>>


-----------------------------------------------------------------------------
(* Claims about the propagation engine.                                    *)

H == args.field.u.shape[2]

W == args.field.u.shape[3]

IsKernel == fn \in {"transfer_propagate", "exact_propagate"}

SupportedMethods == {"transform", "transfer", "exact"}

SupportedModes == {"full", "same"}

KernelOf(method) ==
    CASE method = "transform" -> "transform_propagate"
      [] method = "transfer" -> "transfer_propagate"
      [] OTHER -> "exact_propagate"

\* C2 as stated: for every field and every N_pad, transfer_propagate and exact_propagate
\* in mode "same" return a field with the input's spatial shape and the input's dx;
\* transform_propagate returns a field with the input's spatial shape whose dx is
\* du = L^2 / ((size + N_pad) * dx).
C2_Original ==
    /\ (pc = "done" /\ IsKernel /\ args.mode = "same") =>
           /\ ret.status = "ok"
           /\ ret.value.u.shape = args.field.u.shape
           /\ ret.value.dx = args.field.dx
    /\ Done("transform_propagate") =>
           /\ ret.status = "ok"
           /\ ret.value.u.shape = args.field.u.shape
           /\ \A c \in 1..Len(args.field.spectrum) :
                  args.z >= 0 =>
                      FEq(ret.value.dx[c],
                          Frac(args.field.spectrum[c] * args.z * args.n.den,
                               args.n.num * (H + args.N_pad) * args.field.dx.num))

\* C3 as stated: in transfer_propagate and exact_propagate mode "full" returns the
\* padded result (each spatial axis enlarged by the padding applied before the FFT),
\* mode "same" the result cropped back to the original spatial size, and any other
\* mode fails with an unsupported-method error and returns no field.
C3_Original ==
    (pc = "done" /\ IsKernel) =>
        /\ args.mode = "full" =>
               /\ ret.status = "ok"
               /\ ret.value.u.shape = <<1, H + 2 * HalfInt(args.N_pad),
                                        W + 2 * HalfInt(args.N_pad), Len(args.field.spectrum)>>
        /\ args.mode = "same" =>
               /\ ret.status = "ok"
               /\ ret.value.u.shape = args.field.u.shape
        /\ args.mode \notin SupportedModes => ret = Raise("NotImplementedError")

\* C4 as stated: propagate dispatches on the method string to exactly one of the three
\* kernels; whenever the method is not one of the three, or the mode is not "full" or
\* "same", it fails with an unsupported-method error, whatever the other arguments are.
C4_Original ==
    Done("propagate") =>
        IF args.method \notin SupportedMethods \/ args.mode \notin SupportedModes
        THEN ret = Raise("NotImplementedError")
        ELSE dispatch # None /\ dispatch.kernel = KernelOf(args.method)

\* the exact-method precondition of propagate fails: no N_pad supplied and scale >= 1
PreconditionFails ==
    /\ args.method = "exact" /\ args.N_pad = << >>
    /\ Scale(args.field).num >= Scale(args.field).den

\* the kernel that propagate called reaches its match on mode: the padded field and
\* the phase grid broadcast
ReachesModeSwitch ==
    /\ dispatch # None
    /\ Broadcast(<<1, H + 2 * HalfInt(dispatch.N_pad), W + 2 * HalfInt(dispatch.N_pad),
                   Len(args.field.spectrum)>>,
                 <<1, H + dispatch.N_pad, H + dispatch.N_pad, Len(args.field.spectrum)>>)
           # << >>

\* C4 amended: a method name that is not one of the three fails with an
\* unsupported-method error and calls no kernel, whatever the other arguments; a
\* supported method calls the kernel of its name and no other (none when the exact
\* precondition fails); method "transform" ignores the mode and returns a field; for
\* methods "transfer" and "exact" a mode that is not "full" or "same" returns no field:
\* the error is the unsupported-method error when the kernel reaches its match on mode,
\* and the precondition error or the array-shape error raised before it otherwise.
C4_Dispatch ==
    Done("propagate") =>
        /\ args.method \notin SupportedMethods =>
               ret = Raise("NotImplementedError") /\ dispatch = None
        /\ args.method \in SupportedMethods =>
               /\ dispatch = None <=> PreconditionFails
               /\ dispatch # None => dispatch.kernel = KernelOf(args.method)
        /\ args.method = "transform" => ret.status = "ok"
        /\ (args.method \in {"transfer", "exact"} /\ args.mode \notin SupportedModes) =>
               /\ ret.status = "raise"
               /\ ret.error = "NotImplementedError" <=> ReachesModeSwitch
               /\ PreconditionFails => ret.error = "AssertionError"
               /\ (dispatch # None /\ ~ReachesModeSwitch) => ret.error = "IncompatibleShapes"

\* a transfer call in an unknown mode that ends in the unsupported-method error
C4_Witness ==
    /\ Done("propagate")
    /\ args.method = "transfer" /\ args.mode = "valid" /\ args.N_pad = <<2>> /\ H = 2 /\ W = 2
    /\ dispatch = [kernel |-> "transfer_propagate", N_pad |-> 2]
    /\ ret = Raise("NotImplementedError")

\* Q * M as a fraction, Q = 2 * max(1, M / (4 * Nf))
QM == Frac(PadRatio(args.field, args.z).num * H, PadRatio(args.field, args.z).den)

\* N is the smallest even integer >= the fraction x
LeastEvenAtLeast(N, x) ==
    /\ N % 2 = 0
    /\ N * x.den >= x.num
    /\ (N - 2) * x.den < x.num

\* 1 - scale^2
OneMinusScaleSq ==
    Frac(Scale(args.field).den * Scale(args.field).den
             - Scale(args.field).num * Scale(args.field).num,
         Scale(args.field).den * Scale(args.field).den)

\* N is the smallest even integer >= x / sqrt(r), for x >= 0 and 0 < r <= 1
LeastEvenAtLeastDivSqrt(N, x, r) ==
    /\ N % 2 = 0 /\ N >= 0
    /\ N * N * x.den * x.den * r.num >= x.num * x.num * r.den
    /\ N >= 2 => (N - 2) * (N - 2) * x.den * x.den * r.num < x.num * x.num * r.den

\* C5 as stated: with no N_pad supplied propagate passes N_pad = N - M, N the smallest
\* even integer >= Q * M with Q = 2 * max(1, M / (4 * Nf)), so M + N_pad is even and
\* at least 2 * M, and N_pad = M when Q = 2; a supplied N_pad is passed unchanged.
C5_Original ==
    (Done("propagate") /\ args.method \in SupportedMethods) =>
        IF args.N_pad = << >>
        THEN /\ dispatch # None
             /\ LeastEvenAtLeast(H + dispatch.N_pad, QM)
             /\ (H + dispatch.N_pad) % 2 = 0
             /\ H + dispatch.N_pad >= 2 * H
             /\ FEq(PadRatio(args.field, args.z), Frac(2, 1)) => dispatch.N_pad = H
        ELSE dispatch # None /\ dispatch.N_pad = args.N_pad[1]

\* C5 amended: the statement holds for methods "transform" and "transfer".  For method
\* "exact" with scale < 1, N is the smallest even integer >= Q * M / sqrt(1 - scale^2),
\* so N_pad > M even when Q = 2; with scale >= 1 and no N_pad supplied nothing is
\* passed.  In every case that passes an N_pad computed by propagate, M + N_pad is even
\* and at least 2 * M; a supplied N_pad is passed unchanged by all three methods.
C5_AutoPad ==
    (Done("propagate") /\ args.method \in SupportedMethods) =>
        /\ (args.N_pad = << >> /\ args.method \in {"transform", "transfer"}) =>
               /\ dispatch # None
               /\ LeastEvenAtLeast(H + dispatch.N_pad, QM)
               /\ FEq(PadRatio(args.field, args.z), Frac(2, 1)) => dispatch.N_pad = H
        /\ (args.N_pad = << >> /\ args.method = "exact" /\ ~PreconditionFails) =>
               /\ dispatch # None
               /\ LeastEvenAtLeastDivSqrt(H + dispatch.N_pad, QM, OneMinusScaleSq)
               /\ dispatch.N_pad > H
        /\ PreconditionFails => dispatch = None
        /\ (args.N_pad = << >> /\ dispatch # None) =>
               /\ (H + dispatch.N_pad) % 2 = 0
               /\ H + dispatch.N_pad >= 2 * H
        /\ args.N_pad # << >> => dispatch # None /\ dispatch.N_pad = args.N_pad[1]

\* a far-field transfer call: M = 3, Q * M = 20 / 3, N = 8, N_pad = 5 > M
C5_Witness ==
    /\ Done("propagate")
    /\ args.method = "transfer" /\ args.N_pad = << >>
    /\ H = 3 /\ args.z = 6 /\ args.field.dx = Frac(3, 1) /\ args.field.spectrum = <<5>>
    /\ dispatch = [kernel |-> "transfer_propagate", N_pad |-> 5]

\* C6 as stated: for method "exact" propagate fails with a precondition error and
\* calls no kernel whenever scale >= 1, whether or not the caller supplied N_pad.
C6_Original ==
    (Done("propagate") /\ args.method = "exact"
        /\ Scale(args.field).num >= Scale(args.field).den) =>
        ret = Raise("AssertionError") /\ dispatch = None

\* scale = max(spectrum / (2 * dx)) >= 1, from the arguments
ScaleAtLeastOne ==
    \E c \in 1..Len(args.field.spectrum) :
        args.field.spectrum[c] * args.field.dx.den >= 2 * args.field.dx.num

\* C6 amended: for method "exact" propagate fails with a precondition error and calls
\* no kernel whenever scale >= 1 and the caller supplied no N_pad; with an N_pad
\* supplied it makes no check and calls exact_propagate with that N_pad, whatever the
\* scale; with scale < 1 and no N_pad supplied, N_pad is computed from Q inflated by
\* 1 / sqrt(1 - scale^2).
C6_ExactPrecondition ==
    (Done("propagate") /\ args.method = "exact") =>
        /\ (ScaleAtLeastOne /\ args.N_pad = << >>) =>
               ret = Raise("AssertionError") /\ dispatch = None
        /\ args.N_pad # << >> =>
               dispatch = [kernel |-> "exact_propagate", N_pad |-> args.N_pad[1]]
        /\ (~ScaleAtLeastOne /\ args.N_pad = << >>) =>
               /\ dispatch # None /\ dispatch.kernel = "exact_propagate"
               /\ LeastEvenAtLeastDivSqrt(H + dispatch.N_pad, QM, OneMinusScaleSq)

\* an exact call with wavelengths 0.5 and 0.7 at dx = 0.3 (scale = 7/6) and no N_pad
C6_Witness ==
    /\ Done("propagate")
    /\ args.method = "exact" /\ args.N_pad = << >>
    /\ args.field.dx = Frac(3, 1) /\ args.field.spectrum = <<5, 7>>
    /\ ret = Raise("AssertionError")

\* the phase array of the state was built by exact_propagate
ExactKernelBuilt ==
    /\ pc = "done"
    /\ \/ fn = "exact_propagate"
       \/ fn = "propagate" /\ dispatch # None /\ dispatch.kernel = "exact_propagate"

\* (spectrum/n)^2 * (fx^2 + fy^2) > 1 at the bin idx of a grid of N bins per axis
Evanescent(idx, N) ==
    LET l == args.field.spectrum[idx[4]]
        k2 == FftFreq(N)[idx[2]] * FftFreq(N)[idx[2]] + FftFreq(N)[idx[3]] * FftFreq(N)[idx[3]]
    IN  l * l * args.n.den * args.n.den * args.field.dx.den * args.field.dx.den * k2
            > args.n.num * args.n.num * N * N * args.field.dx.num * args.field.dx.num

\* 1 - (spectrum/n)^2 * (fx^2 + fy^2) at the bin idx
OneMinusTerm(idx, N) ==
    LET l == args.field.spectrum[idx[4]]
        k2 == FftFreq(N)[idx[2]] * FftFreq(N)[idx[2]] + FftFreq(N)[idx[3]] * FftFreq(N)[idx[3]]
        d == args.n.num * args.n.num * N * N * args.field.dx.num * args.field.dx.num
    IN  Frac(d - l * l * args.n.den * args.n.den * args.field.dx.den * args.field.dx.den * k2, d)

\* C8: in exact_propagate, at every bin with (spectrum/n)^2 * (fx^2 + fy^2) > 1 the
\* kernel term is clamped to 0 and the phase is exactly 0 for every z; at every other
\* bin the kernel term is 1 - (spectrum/n)^2 * (fx^2 + fy^2) >= 0, never negative.
C8_EvanescentClamp ==
    ExactKernelBuilt =>
        \A idx \in DOMAIN propagator.at :
            IF Evanescent(idx, propagator.shape[2])
            THEN /\ propagator.at[idx].rad.num = 0
                 /\ PhaseIsZero(propagator.at[idx])
            ELSE /\ FEq(propagator.at[idx].rad, OneMinusTerm(idx, propagator.shape[2]))
                 /\ propagator.at[idx].rad.num >= 0

\* an exact call with z # 0 whose grid holds an evanescent bin and a propagating one
\* with non-zero phase
C8_Witness ==
    /\ Done("exact_propagate") /\ args.z = 1
    /\ \E idx \in DOMAIN propagator.at :
           Evanescent(idx, propagator.shape[2]) /\ PhaseIsZero(propagator.at[idx])
    /\ \E idx \in DOMAIN propagator.at :
           ~Evanescent(idx, propagator.shape[2]) /\ ~PhaseIsZero(propagator.at[idx])

\* C9 as stated: propagate with z = 0 and N_pad = 0 returns a field equal to the input
\* field (same u, same dx) for each of the three methods.
C9_Original ==
    (Done("propagate") /\ args.z = 0 /\ args.N_pad = <<0>>
        /\ args.method \in SupportedMethods /\ args.mode \in SupportedModes) =>
        /\ ret.status = "ok"
        /\ ret.value.u = args.field.u
        /\ IF args.method = "transform"
           THEN \A c \in 1..Len(args.field.spectrum) : FEq(ret.value.dx[c], args.field.dx)
           ELSE ret.value.dx = args.field.dx

\* C9 amended: with z = 0 and N_pad = 0, methods "transfer" and "exact" return a field
\* equal to the input field when the field is square or one pixel high; for any other
\* shape they fail with an array-shape error or (width 1) return a field of another
\* shape.  Method "transform" does not return the input field: L = 0 gives dx = du = 0
\* and non-finite samples, on the input's shape.
C9_IdentityDistance ==
    (Done("propagate") /\ args.z = 0 /\ args.N_pad = <<0>>
        /\ args.mode \in SupportedModes) =>
        /\ (args.method \in {"transfer", "exact"} /\ (H = W \/ H = 1)) =>
               ret = Ok(args.field)
        /\ (args.method \in {"transfer", "exact"} /\ H # W /\ H # 1) =>
               IF W = 1
               THEN ret.status = "ok" /\ ret.value.u.shape = <<1, H, H, Len(args.field.spectrum)>>
               ELSE ret = Raise("IncompatibleShapes")
        /\ args.method = "transform" =>
               /\ ret.status = "ok"
               /\ ret.value.u = Fill(args.field.u, NonFinite)
               /\ \A c \in 1..Len(args.field.spectrum) : FEq(ret.value.dx[c], Frac(0, 1))

\* an exact call on a 2 x 2 field that returns its input
C9_Witness ==
    /\ Done("propagate")
    /\ args.z = 0 /\ args.N_pad = <<0>> /\ args.method = "exact" /\ args.mode = "full"
    /\ H = 2 /\ W = 2
    /\ ret = Ok(args.field)

\* the kernel that propagate called built a phase array
PhaseBuilt ==
    /\ Done("propagate")
    /\ dispatch # None
    /\ dispatch.kernel \in {"transfer_propagate", "exact_propagate"}

\* C13 as stated: in transfer_propagate and exact_propagate, for every field shape
\* (H, W) and every N_pad that propagate can pass (computed or supplied), the phase
\* array is built on a grid whose size on each spatial axis equals the size of the
\* padded field on that axis, H + 2 * int(N_pad / 2) and W + 2 * int(N_pad / 2), and
\* the padding added on each side is exactly N_pad / 2.
C13_Original ==
    PhaseBuilt =>
        /\ propagator.shape[2] = H + 2 * HalfInt(dispatch.N_pad)
        /\ propagator.shape[3] = W + 2 * HalfInt(dispatch.N_pad)
        /\ 2 * HalfInt(dispatch.N_pad) = dispatch.N_pad

-----------------------------------------------------------------------------
(* Claims about the multislice simulation.                                 *)

IsMultislice == fn = "multislice_thick_sample"

\* D, the number of slices of absorption_stack
Depth == args.absorption_stack.shape[1]

StacksAgree == args.absorption_stack.shape = args.dn_stack.shape

\* the slices are given on the grid of the padded field
OnPaddedGrid ==
    /\ args.absorption_stack.shape[2] = H + 2 * args.N_pad
    /\ args.absorption_stack.shape[3] = W + 2 * args.N_pad

IsPrefix(s, t) == Len(s) <= Len(t) /\ \A k \in 1..Len(s) : s[k] = t[k]

\* the calls made so far, the computation of the kernel left out
StepsTaken == SelectSeq(trace, LAMBDA e : e # <<"compute_exact_propagator">>)

\* the calls of a complete run in the order stated: the check, the pad, thin_sample
\* and kernel_propagate for slice 0, ..., slice D - 1, the exact propagation, the crop
OrderedSteps ==
    <<<<"assert_equal_shape">>, <<"pad">>>>
        \o [k \in 1..(2 * Depth) |-> IF k % 2 = 1 THEN <<"thin_sample", (k - 1) \div 2>>
                                     ELSE <<"kernel_propagate", (k - 2) \div 2>>]
        \o <<<<"exact_propagate">>, <<"crop">>>>

\* the operations applied to u are, in this order: the pad by N_pad; for slice
\* i = 0..D-1 thin_sample with slice i of each stack and the slice thickness, then a
\* kernel propagation; the exact propagation by z = -(thickness_per_slice * D / 2)
\* with N_pad = 0; the crop by N_pad
AppliedInOrder(u) ==
    /\ Len(u) <= 2 * Depth + 3
    /\ \A k \in 1..Len(u) :
           CASE k = 1 -> u[k] = [op |-> "pad", N_pad |-> args.N_pad]
             [] k = 2 * Depth + 2 ->
                    /\ u[k].op = "exact_propagate"
                    /\ u[k].z.den # 0
                    /\ u[k].z.num * 2 = (0 - args.thickness_per_slice * Depth) * u[k].z.den
                    /\ u[k].N_pad = 0 /\ u[k].n = args.n /\ u[k].kykx = args.kykx
             [] k = 2 * Depth + 3 -> u[k] = [op |-> "crop", N_pad |-> args.N_pad]
             [] OTHER ->
                    IF k % 2 = 0
                    THEN u[k] = [op |-> "thin_sample",
                                 absorption |-> args.absorption_stack.at[k \div 2],
                                 dn |-> args.dn_stack.at[k \div 2],
                                 thickness |-> args.thickness_per_slice]
                    ELSE u[k].op = "kernel_propagate"

\* C11: multislice_thick_sample checks that the stacks have equal shape before
\* touching the field (a shape-mismatch error and no slice processed otherwise), pads
\* the field by N_pad, then for slice i = 0..D-1 in increasing order applies thin_sample
\* with slice i and then one kernel propagation, each on the field the previous step
\* produced; only after slice D-1 it propagates by z = -(thickness_per_slice * D / 2)
\* with the exact method and N_pad = 0, and finally crops by N_pad, so the output has
\* the input's spatial size.
C11_SliceOrder ==
    IsMultislice =>
        /\ IsPrefix(StepsTaken, OrderedSteps)
        /\ AppliedInOrder(local.field.u)
        /\ Len(StepsTaken) <= 1 =>
               local.field.u = << >> /\ local.field.shape = args.field.u.shape
        /\ ~StacksAgree => Len(trace) <= 1
        /\ (~StacksAgree /\ pc = "done") =>
               ret = Raise("ShapeMismatch") /\ trace = <<<<"assert_equal_shape">>>>
        /\ (StacksAgree /\ OnPaddedGrid /\ pc = "done") => ret.status = "ok"
        /\ (pc = "done" /\ ret.status = "ok") =>
               /\ StepsTaken = OrderedSteps
               /\ AppliedInOrder(ret.value.u)
               /\ Len(ret.value.u) = 2 * Depth + 3
               /\ ret.value.shape = args.field.u.shape

\* a completed call on a padded 2 x 2 field with two slices that differ
C11_Witness ==
    /\ IsMultislice /\ pc = "done" /\ ret.status = "ok"
    /\ Depth = 2 /\ args.N_pad = 1 /\ H = 2 /\ W = 2
    /\ args.absorption_stack.at[1] # args.absorption_stack.at[2]
    /\ Len(ret.value.u) = 7
    /\ ret.value.shape = <<1, 2, 2, Len(args.field.spectrum)>>

\* the positions of the trace at which the kernel is computed
Computations == {k \in 1..Len(trace) : trace[k] = <<"compute_exact_propagator">>}

\* the positions of the trace at which a slice is processed or the field propagated
SliceSteps ==
    {k \in 1..Len(trace) :
        trace[k][1] \in {"thin_sample", "kernel_propagate", "exact_propagate"}}

\* the kernels that the kernel propagations applied to u were given
KernelsUsed(u) == {u[k].propagator : k \in {j \in 1..Len(u) : u[j].op = "kernel_propagate"}}

\* the kernel is settled: a slice has been processed or the loop is over
KernelSettled == SliceSteps # {}

\* C12: in multislice_thick_sample the kernel is computed at most once per call, and
\* only when the caller supplied none; it is computed after the field is padded and
\* before the first slice, for one slice thickness on the padded field; the same
\* kernel value (the supplied one, if given) is used unchanged for the kernel
\* propagation of every slice; the stacks and the supplied kernel (the arguments) are
\* not modified by the call.
C12_KernelOnce ==
    /\ [](IsMultislice =>
            /\ Cardinality(Computations) <= 1
            /\ Computations # {} => args.propagator = None
            /\ args.propagator # None => propagator = args.propagator
            /\ \A k \in Computations :
                   /\ \E j \in 1..(k - 1) : trace[j] = <<"pad">>
                   /\ \A j \in SliceSteps : k < j
                   /\ propagator.z = args.thickness_per_slice
                   /\ propagator.shape = <<1, H + 2 * args.N_pad, W + 2 * args.N_pad,
                                           Len(args.field.spectrum)>>
            /\ (KernelSettled /\ args.propagator = None) => Computations # {}
            /\ KernelsUsed(local.field.u) \subseteq {propagator}
            /\ (pc = "done" /\ ret.status = "ok") =>
                   /\ KernelsUsed(ret.value.u) \subseteq {propagator}
                   /\ Depth > 0 => KernelsUsed(ret.value.u) = {propagator})
    /\ [][IsMultislice =>
            /\ args' = args
            /\ KernelSettled => propagator' = propagator]_vars

\* a completed call of two slices for which the kernel was computed, once
C12_Witness ==
    /\ IsMultislice /\ pc = "done" /\ ret.status = "ok"
    /\ Depth = 2 /\ args.propagator = None /\ args.thickness_per_slice = 2
    /\ Cardinality(Computations) = 1
    /\ KernelsUsed(ret.value.u) = {propagator}
    /\ propagator.z = 2

====
